---------------------------- MODULE Spec2Model ----------------------------
(***************************************************************************)
(* A model of uber-script.py: the trip export pipeline (main,              *)
(* get_uber_trips, get_receipt_timestamp, download_receipt_pdf,            *)
(* merge_receipts, process_excel_file) and its pure helpers                *)
(* (price extraction, status detection, classify_trip_reason,              *)
(* parse_trip_date).                                                       *)
(*                                                                         *)
(* Text is modelled by what the code does with it:                         *)
(*  - descriptions, addresses and keywords are sequences of one-character  *)
(*    strings, so that lower(), "in" and the price regex are computed;     *)
(*  - trip time strings are sequences of lexical tokens [k, v], so that    *)
(*    replace(), strip() and strptime() are computed.                      *)
(* Prices are decimal numbers held as integers in units of 1/PriceScale.   *)
(***************************************************************************)
EXTENDS Integers, Sequences, FiniteSets, TLC

VARIABLES
    pc,              \* position of main() / get_uber_trips()
    target_month,    \* result of parse_command_line_args()
    activities,      \* activities_data of the listing response
    idx,             \* loop index in get_uber_trips (1-based)
    cur,             \* locals of the current iteration
    trips,           \* the list "trips"
    overall_amount,  \* the accumulator "overall_amount"
    dl,              \* download_receipt_pdf: attempts made, last outcome, result
    listing_requests,
                     \* number of listing requests issued in this run
    listing_outcome, \* how the listing request ended ("none" before it)
    requests,        \* the requests issued for the current record, in order
    receiptFiles,    \* uuids u such that receipts/<u>.pdf exists
    downloaded,      \* uuids whose receipt was written by this run
    merged,          \* uuids appended to the PdfMerger by this run, in order
    artifacts,       \* files and folders created by this run
    ws,              \* workbook cells written by this run: <<sheet, row, col>> -> value
    home_keywords,   \* config: home_address_keywords
    work_keywords,   \* config: work_address_keywords
    email_enabled,   \* config: email_config.enabled
    now_year,        \* datetime.now().year
    now_month,       \* datetime.now().month
    month_range,     \* get_month_date_range: its locals and its result
    exit_code,       \* exit status of the process, -1 while it runs
    logged,          \* the messages about the month argument logged so far
    token_read,      \* read_token_from_file was called
    detail_resp,     \* the trip-detail response whose waypoints are extracted
    pickup_location, \* argument of classify_trip_reason
    trip_reason      \* result of classify_trip_reason

vars == <<pc, target_month, activities, idx, cur, trips, overall_amount, dl,
          listing_requests, listing_outcome, requests, receiptFiles,
          downloaded, merged, artifacts, ws, home_keywords, work_keywords,
          email_enabled, now_year, now_month, month_range, exit_code, logged,
          token_read, detail_resp, pickup_location, trip_reason>>

(***************************************************************************)
(* Bounds of the model.                                                    *)
(***************************************************************************)
MaxTrips == 2
MaxMergeTrips == 3
MaxRows == 2
MaxPickupLen == 3
MaxWaypoints == 3
MaxDescLen == 4

(***************************************************************************)
(* Characters and strings.                                                 *)
(***************************************************************************)
UpperChars == <<"A","B","C","D","E","F","G","H","I","J","K","L","M",
                "N","O","P","Q","R","S","T","U","V","W","X","Y","Z">>
LowerChars == <<"a","b","c","d","e","f","g","h","i","j","k","l","m",
                "n","o","p","q","r","s","t","u","v","w","x","y","z">>
DigitChars == <<"0","1","2","3","4","5","6","7","8","9">>

LowerChar(c) ==
    IF \E i \in DOMAIN UpperChars : UpperChars[i] = c
    THEN LowerChars[CHOOSE i \in DOMAIN UpperChars : UpperChars[i] = c]
    ELSE c

\* str.lower()
Lower(s) == [i \in DOMAIN s |-> LowerChar(s[i])]

\* Python's "sub in s"
Contains(s, sub) ==
    \E i \in 0..(Len(s) - Len(sub)) : SubSeq(s, i + 1, i + Len(sub)) = sub

IsDigit(c) == \E i \in DOMAIN DigitChars : DigitChars[i] = c
DigitVal(c) == (CHOOSE i \in DOMAIN DigitChars : DigitChars[i] = c) - 1

\* The literals the code searches for.
CanceledLit == <<"c","a","n","c","e","l","e","d">>
UnfulfilledLit == <<"u","n","f","u","l","f","i","l","l","e","d">>

(***************************************************************************)
(* Price extraction: re.search(r"([0-9]+(?:\.[0-9]+)?)", desc), float().   *)
(***************************************************************************)
PriceScale == 100

\* end of the maximal run of digits that starts at position i
RECURSIVE DigitRunEnd(_, _)
DigitRunEnd(s, i) ==
    IF i + 1 <= Len(s) /\ IsDigit(s[i + 1]) THEN DigitRunEnd(s, i + 1) ELSE i

\* value of the digits s[i..j] read as an integer
RECURSIVE IntValue(_, _, _)
IntValue(s, i, j) ==
    IF j < i THEN 0 ELSE IntValue(s, i, j - 1) * 10 + DigitVal(s[j])

\* value of the digits s[i..j] read as a decimal fraction, in 1/PriceScale
RECURSIVE FracValue(_, _, _, _)
FracValue(s, i, j, unit) ==
    IF j < i THEN 0
    ELSE DigitVal(s[i]) * (unit \div 10) + FracValue(s, i + 1, j, unit \div 10)

HasDigit(s) == \E i \in DOMAIN s : IsDigit(s[i])
FirstDigitPos(s) ==
    CHOOSE i \in DOMAIN s : IsDigit(s[i]) /\ \A j \in 1..(i - 1) : ~IsDigit(s[j])

ParsePriceIntegerPart(desc) ==
    IF ~HasDigit(desc) THEN 0
    ELSE IntValue(desc, FirstDigitPos(desc),
                  DigitRunEnd(desc, FirstDigitPos(desc))) * PriceScale

ParsePrice(desc) ==
    IF ~HasDigit(desc) THEN 0
    ELSE LET p == FirstDigitPos(desc)
             q == DigitRunEnd(desc, p)
             hasFrac == q + 2 <= Len(desc) /\ desc[q + 1] = "."
                        /\ IsDigit(desc[q + 2])
             r == IF hasFrac THEN DigitRunEnd(desc, q + 2) ELSE q
         IN  IntValue(desc, p, q) * PriceScale
             + (IF hasFrac THEN FracValue(desc, q + 2, r, PriceScale) ELSE 0)

\* status = "Canceled" if "canceled" in desc.lower() else "Completed"
TripStatus(desc) ==
    IF Contains(Lower(desc), CanceledLit) THEN "Canceled" ELSE "Completed"

SkipRecordCanceledOnly(desc) == TripStatus(desc) = "Canceled"

SkipRecordUnfulfilledOnly(desc) == Contains(Lower(desc), UnfulfilledLit)

\* if status == "Canceled" or "unfulfilled" in desc.lower(): continue
SkipRecord(desc) ==
    TripStatus(desc) = "Canceled" \/ Contains(Lower(desc), UnfulfilledLit)

(***************************************************************************)
(* Trip time strings (the listing's "subtitle") as token sequences.        *)
(* A token is [k, v]: k the lexical class, v its numeric value.            *)
(*   mon   month abbreviation (%b), v = month number                       *)
(*   d2    a number of one or two digits (%d), v = the number              *)
(*   d4    a number of four digits (%Y), v = the number                    *)
(*   hm    "H:MM" (%I:%M), v = 60 * H + MM, H in 1..12                     *)
(*   ampm  "AM" / "PM" (%p), v = 0 / 1                                     *)
(*   sp    one space; comma  ","                                           *)
(*   bullet   the character U+2022                                         *)
(*   literal  the three characters U+00E2 U+20AC U+00A2, the string the    *)
(*            source passes to str.replace (lines 661, 669, 781)           *)
(*   word  any other text                                                  *)
(***************************************************************************)
Tok(k, v) == [k |-> k, v |-> v]
SP == Tok("sp", 0)
COMMA == Tok("comma", 0)
BULLET == Tok("bullet", 0)
LITERAL == Tok("literal", 0)

\* str.replace(<literal>, "")
RECURSIVE RemoveLiteral(_)
RemoveLiteral(s) ==
    IF s = <<>> THEN <<>>
    ELSE IF Head(s) = LITERAL THEN RemoveLiteral(Tail(s))
    ELSE <<Head(s)>> \o RemoveLiteral(Tail(s))

RECURSIVE LStrip(_)
LStrip(s) == IF s # <<>> /\ Head(s) = SP THEN LStrip(Tail(s)) ELSE s

RECURSIVE RStrip(_)
RStrip(s) ==
    IF s # <<>> /\ s[Len(s)] = SP THEN RStrip(SubSeq(s, 1, Len(s) - 1)) ELSE s

\* str.strip()
Strip(s) == RStrip(LStrip(s))

\* strptime compiles each run of whitespace of the format to \s+ : a run of
\* spaces of the data matches one space of the format
RECURSIVE CollapseSpaces(_)
CollapseSpaces(s) ==
    IF Len(s) < 2 THEN s
    ELSE IF s[1] = SP /\ s[2] = SP THEN CollapseSpaces(Tail(s))
    ELSE <<s[1]>> \o CollapseSpaces(Tail(s))

\* "%b %d %I:%M %p"
FormatShort == <<"mon", "sp", "d2", "sp", "hm", "sp", "ampm">>
\* "%b %d, %Y, %I:%M %p"
FormatLong == <<"mon", "sp", "d2", "comma", "sp", "d4", "comma", "sp",
                "hm", "sp", "ampm">>

IsLeap(y) == (y % 4 = 0 /\ y % 100 # 0) \/ y % 400 = 0
DaysIn(mo, y) ==
    IF mo = 2 THEN (IF IsLeap(y) THEN 29 ELSE 28)
    ELSE IF mo \in {4, 6, 9, 11} THEN 30 ELSE 31

FieldOf(s, k) == (CHOOSE i \in DOMAIN s : s[i].k = k)

DateTime(y, mo, d, mi) == [ok |-> TRUE, y |-> y, mo |-> mo, d |-> d, mi |-> mi]
NoDateTime == [ok |-> FALSE, y |-> 0, mo |-> 0, d |-> 0, mi |-> 0]
\* datetime.min
DateTimeMin == DateTime(1, 1, 1, 0)
\* the year strptime assumes when the format has none
StrptimeDefaultYear == 1900

\* datetime.strptime(s, fmt): NoDateTime stands for ValueError
Strptime(s, fmt) ==
    LET c == CollapseSpaces(s)
    IN  IF Len(c) # Len(fmt) \/ \E i \in DOMAIN c : c[i].k # fmt[i]
        THEN NoDateTime
        ELSE LET mo == c[FieldOf(c, "mon")].v
                 d == c[FieldOf(c, "d2")].v
                 y == IF \E i \in DOMAIN c : c[i].k = "d4"
                      THEN c[FieldOf(c, "d4")].v ELSE StrptimeDefaultYear
                 hm == c[FieldOf(c, "hm")].v
                 pm == c[FieldOf(c, "ampm")].v
                 mins == ((hm \div 60) % 12) * 60 + (hm % 60) + 720 * pm
             IN  IF d < 1 \/ d > DaysIn(mo, y) \/ y < 1 THEN NoDateTime
                 ELSE DateTime(y, mo, d, mins)

\* the order of datetime values
DateTimeKey(dt) == ((dt.y * 12 + dt.mo) * 31 + dt.d) * 1440 + dt.mi

\* parse_trip_date
parse_trip_date(date_str, year) ==
    LET first == Strptime(Strip(RemoveLiteral(date_str)), FormatShort)
        second == Strptime(date_str, FormatLong)
    IN  IF first.ok THEN [first EXCEPT !.y = year]
        ELSE IF second.ok THEN second
        ELSE DateTimeMin

\* the inline parser of process_excel_file: the cell value is a datetime, or
\* the raw string when both formats fail
ExcelDate(time_str, year) ==
    LET clean == Strip(RemoveLiteral(time_str))
        first == Strptime(clean, FormatShort)
        second == Strptime(clean, FormatLong)
    IN  IF first.ok THEN [kind |-> "datetime", dt |-> [first EXCEPT !.y = year],
                          raw |-> <<>>]
        ELSE IF second.ok THEN [kind |-> "datetime", dt |-> second, raw |-> <<>>]
        ELSE [kind |-> "text", dt |-> NoDateTime, raw |-> time_str]


(***************************************************************************)
(* Input data: the responses the upstream service may give.                *)
(***************************************************************************)
\* descriptions of listing records
DescPaid == <<"E","G","P"," ","1","2",".","5","0">>
DescCanceled == <<"E","G","P"," ","5"," ","C","a","n","c","e","l","e","d">>
DescUnfulfilled == <<"3",".","5"," ","U","N","F","U","L","F","I","L","L","E","D">>
DescFree == <<"F","r","e","e">>

\* subtitles of listing records
\* "Aug 31 <U+2022> 4:29 PM"
TimeAug31Bullet == <<Tok("mon", 8), SP, Tok("d2", 31), SP, BULLET, SP,
                     Tok("hm", 269), SP, Tok("ampm", 1)>>
\* "Aug 30 <U+2022> 9:00 AM"
TimeAug30Bullet == <<Tok("mon", 8), SP, Tok("d2", 30), SP, BULLET, SP,
                     Tok("hm", 540), SP, Tok("ampm", 0)>>
\* "Aug 31 <U+00E2 U+20AC U+00A2> 4:29 PM"
TimeAug31Literal == <<Tok("mon", 8), SP, Tok("d2", 31), SP, LITERAL, SP,
                      Tok("hm", 269), SP, Tok("ampm", 1)>>
\* "Aug 30 9:00 AM"
TimeAug30Plain == <<Tok("mon", 8), SP, Tok("d2", 30), SP,
                    Tok("hm", 540), SP, Tok("ampm", 0)>>
\* "Aug 31, 2025, 4:29 PM"
TimeAug31Long == <<Tok("mon", 8), SP, Tok("d2", 31), COMMA, SP, Tok("d4", 2025),
                   COMMA, SP, Tok("hm", 269), SP, Tok("ampm", 1)>>
\* "Aug 30, 2024, 9:00 AM"
TimeAug30Long == <<Tok("mon", 8), SP, Tok("d2", 30), COMMA, SP, Tok("d4", 2024),
                   COMMA, SP, Tok("hm", 540), SP, Tok("ampm", 0)>>
\* " Aug 31, 2025, 4:29 PM" (a leading space)
TimeAug31LongPadded == <<SP>> \o TimeAug31Long
\* "Feb 29 4:29 PM"
TimeFeb29Plain == <<Tok("mon", 2), SP, Tok("d2", 29), SP,
                    Tok("hm", 269), SP, Tok("ampm", 1)>>
\* "Yesterday"
TimeWord == <<Tok("word", 0)>>

Uuids == <<"u1", "u2", "u3", "u4", "u5", "u6">>

ActivitySamples ==
    { [description |-> DescPaid, subtitle |-> TimeAug31Bullet],
      [description |-> DescCanceled, subtitle |-> TimeAug30Bullet],
      [description |-> DescUnfulfilled, subtitle |-> TimeAug31Literal],
      [description |-> DescFree, subtitle |-> TimeWord] }

SeqsUpTo(S, n) == UNION { [1..k -> S] : k \in 0..n }

\* the activities of a listing response: the i-th record has uuid Uuids[i]
Listings ==
    { [i \in DOMAIN l |-> [uuid |-> Uuids[i],
                           description |-> l[i].description,
                           subtitle |-> l[i].subtitle]] :
      l \in SeqsUpTo(ActivitySamples, MaxTrips) }

\* a listing response with data: its activities and its nextPageToken ("" for
\* none), a field get_uber_trips asks for in the query and never reads
ListingResponses ==
    { [activities |-> l, nextPageToken |-> t] :
      l \in Listings, t \in {"", "page2"} }

\* outcomes of the listing request
ListingOutcomes == {"timeout", "network_error", "http_error", "not_json",
                    "no_data", "ok"}

\* waypoints: a string, or a JSON value that is not a string
Str(chars) == [str |-> TRUE, val |-> chars]
NotStr == [str |-> FALSE, val |-> <<>>]
AddrHome == <<"9"," ","Z","e","i","t","o","u","n">>
AddrWork == <<"2","2","4"," ","N"," ","T","e","s","e","e","n"," ","S","t">>
AddrMall == <<"M","a","l","l">>
UnknownPickup == <<"U","n","k","n","o","w","n"," ","p","i","c","k","u","p">>
UnknownDropoff == <<"U","n","k","n","o","w","n"," ","d","r","o","p","o","f","f">>

WaypointLists ==
    { <<>>,
      <<Str(AddrHome)>>,
      <<Str(AddrHome), Str(AddrWork)>>,
      <<Str(AddrHome), Str(AddrMall), Str(AddrWork)>>,
      <<NotStr, Str(AddrWork)>> }

\* outcomes of the trip-detail request: no response (timeout, network error),
\* a non-200 status, a 200 whose body is not JSON, and JSON bodies
DetailResponses ==
    { [kind |-> k, waypoints |-> <<>>] :
        k \in {"timeout", "network_error", "http_error", "not_json",
               "no_data", "no_trip", "trip_null"} }
    \cup { [kind |-> "trip", waypoints |-> w] : w \in WaypointLists }

\* outcomes of the receipt-metadata request
ReceiptResponses ==
    { [kind |-> k, timestamp |-> "None"] :
        k \in {"timeout", "network_error", "http_error", "not_json",
               "no_data", "no_receipt", "no_jobs", "job_without_timestamp"} }
    \cup { [kind |-> "jobs", timestamp |-> t] : t \in {"", "1756650540000"} }

\* outcomes of one download attempt: no response (timeout, network error), a
\* response with its status code and content-type header, or another exception
ContentTypePdf == <<"a","p","p","l","i","c","a","t","i","o","n","/","p","d","f">>
ContentTypePdfParam == <<"a","p","p","l","i","c","a","t","i","o","n","/","p","d","f",";","q","=","1">>
ContentTypeHtml == <<"t","e","x","t","/","h","t","m","l">>
DownloadResponses ==
    { [kind |-> k, status |-> 0, content_type |-> <<>>] :
        k \in {"timeout", "network_error", "unexpected_error"} }
    \cup { [kind |-> "response", status |-> 200, content_type |-> c] :
             c \in {ContentTypePdf, ContentTypePdfParam, ContentTypeHtml, <<>>} }
    \cup { [kind |-> "response", status |-> 500, content_type |-> ContentTypePdf] }


(***************************************************************************)
(* get_uber_trips                                                          *)
(***************************************************************************)
NoCur == [uuid |-> "", status |-> "", price |-> 0, time |-> <<>>,
          pickup |-> <<>>, dropoff |-> <<>>, timestamp |-> "None"]
NoDownload == [attempts |-> 0, last |-> "none", result |-> "not_called"]

Request(kind, uuid) == [kind |-> kind, uuid |-> uuid]

AmountAfterRecordRetainedOnly(total, desc) ==
    IF SkipRecord(desc) THEN total ELSE total + ParsePrice(desc)

\* overall_amount += price, before the record is examined any further
AmountAfterRecord(total, desc) == total + ParsePrice(desc)

ListingFailedStatusUnchecked(out) ==
    out \in {"timeout", "network_error", "no_data"}

\* the outcomes on which get_uber_trips returns [], 0.0: the two except
\* clauses, status_code != 200, and a body without "data"
ListingFailed(out) ==
    out \in {"timeout", "network_error", "http_error", "no_data"}

\* requests.post of the Activities query and the checks that follow it
FetchListing ==
    /\ pc = "listing"
    /\ \E out \in ListingOutcomes :
        /\ listing_outcome' = out
        /\ IF ListingFailed(out)
           THEN /\ trips' = <<>>
                /\ overall_amount' = 0
                /\ pc' = "returned"
                /\ UNCHANGED <<activities, idx, exit_code>>
           ELSE IF out = "not_json"         \* response.json() raises
           THEN /\ pc' = "crashed"
                /\ exit_code' = 1
                /\ UNCHANGED <<activities, idx, trips, overall_amount>>
           ELSE /\ \E resp \in ListingResponses :
                      activities' = resp.activities
                /\ idx' = 1
                /\ trips' = <<>>
                /\ overall_amount' = 0
                /\ pc' = "loop"
                /\ UNCHANGED exit_code
    /\ listing_requests' = listing_requests + 1
    /\ UNCHANGED <<target_month, cur, dl, requests, receiptFiles, downloaded,
                   merged, artifacts, ws, home_keywords, work_keywords,
                   email_enabled, now_year, pickup_location, trip_reason,
                   now_month, month_range, logged, token_read, detail_resp>>

\* the head of one iteration of "for i, trip in enumerate(activities_data)",
\* to the "continue", or the return when the list is exhausted
NextRecord ==
    /\ pc = "loop"
    /\ \/ /\ idx > Len(activities)
          /\ pc' = "returned"
          /\ UNCHANGED <<idx, cur, overall_amount, requests>>
       \/ /\ idx <= Len(activities)
          /\ requests' = <<>>
          /\ LET rec == activities[idx]
             IN  /\ overall_amount' = AmountAfterRecord(overall_amount, rec.description)
                 /\ IF SkipRecord(rec.description)
                    THEN /\ idx' = idx + 1
                         /\ pc' = "loop"
                         /\ cur' = NoCur
                    ELSE /\ idx' = idx
                         /\ pc' = "detail"
                         /\ cur' = [uuid |-> rec.uuid,
                                    status |-> TripStatus(rec.description),
                                    price |-> ParsePrice(rec.description),
                                    time |-> rec.subtitle,
                                    pickup |-> <<>>, dropoff |-> <<>>,
                                    timestamp |-> "None"]
    /\ UNCHANGED <<target_month, activities, trips, dl, listing_requests,
                   listing_outcome, receiptFiles, downloaded, merged,
                   artifacts, ws, home_keywords, work_keywords, email_enabled,
                   now_year, pickup_location, trip_reason, now_month,
                   month_range, exit_code, logged, token_read, detail_resp>>

\* no trip-detail response at hand
NoResponse == [kind |-> "none", waypoints |-> <<>>]

\* the detail responses on which the code raises: .json() of a body that is
\* not JSON, and trip_data.get on "trip": null
DetailRaises(resp) == resp.kind \in {"not_json", "trip_null"}

PickupOf(resp) ==
    IF resp.kind = "trip" /\ Len(resp.waypoints) >= 2
    THEN (IF resp.waypoints[1].str THEN resp.waypoints[1].val ELSE UnknownPickup)
    ELSE <<>>

DropoffOf(resp) ==
    IF resp.kind = "trip" /\ Len(resp.waypoints) >= 2
    THEN LET w == resp.waypoints[Len(resp.waypoints)]
         IN  IF w.str THEN w.val ELSE UnknownDropoff
    ELSE <<>>

DetailRequestsRetried(uuid, resp) ==
    IF resp.kind \in {"timeout", "network_error", "http_error"}
    THEN <<Request("detail", uuid), Request("detail", uuid)>>
    ELSE <<Request("detail", uuid)>>

\* the one requests.post of the GetTrip query, whatever comes back
DetailRequestsIssued(uuid, resp) == <<Request("detail", uuid)>>

\* the GetTrip request and the extraction of the waypoints
FetchTripDetails ==
    /\ pc = "detail"
    /\ \E resp \in DetailResponses :
        /\ requests' = requests \o DetailRequestsIssued(cur.uuid, resp)
        /\ IF DetailRaises(resp)
           THEN /\ pc' = "crashed"
                /\ exit_code' = 1
                /\ UNCHANGED cur
           ELSE /\ cur' = [cur EXCEPT !.pickup = PickupOf(resp),
                                      !.dropoff = DropoffOf(resp)]
                /\ pc' = "receipt"
                /\ UNCHANGED exit_code
    /\ UNCHANGED <<listing_requests, listing_outcome, target_month,
                   activities, idx, trips, overall_amount, dl, receiptFiles,
                   downloaded, merged, artifacts, ws, home_keywords,
                   work_keywords, email_enabled, now_year, pickup_location,
                   trip_reason, now_month, month_range, logged, token_read,
                   detail_resp>>

\* the receipt responses on which get_receipt_timestamp raises: .json() of a
\* body that is not JSON, and jobs[0]["timestamp"] of a job without the key
ReceiptRaises(resp) == resp.kind \in {"not_json", "job_without_timestamp"}

\* the value get_receipt_timestamp returns
ReceiptTimestamp(resp) == IF resp.kind = "jobs" THEN resp.timestamp ELSE "None"

TruthyAlways(t) == TRUE

\* "if timestamp:"
Truthy(t) == t \notin {"None", ""}

\* get_receipt_timestamp(uuid, headers) and the branch on its result
GetReceiptTimestamp ==
    /\ pc = "receipt"
    /\ \E resp \in ReceiptResponses :
        IF ReceiptRaises(resp)
        THEN /\ pc' = "crashed"
             /\ exit_code' = 1
             /\ UNCHANGED <<cur, dl>>
        ELSE /\ UNCHANGED exit_code
             /\ cur' = [cur EXCEPT !.timestamp = ReceiptTimestamp(resp)]
             /\ IF Truthy(ReceiptTimestamp(resp))
                THEN /\ pc' = "download"
                     /\ dl' = [attempts |-> 0, last |-> "none", result |-> "pending"]
                ELSE /\ pc' = "append"
                     /\ dl' = NoDownload
    /\ requests' = Append(requests, Request("receipt", cur.uuid))
    /\ UNCHANGED <<listing_requests, listing_outcome, target_month,
                   activities, idx, trips, overall_amount, receiptFiles,
                   downloaded, merged, artifacts, ws, home_keywords,
                   work_keywords, email_enabled, now_year, pickup_location,
                   trip_reason, now_month, month_range, logged, token_read,
                   detail_resp>>


(***************************************************************************)
(* download_receipt_pdf                                                    *)
(***************************************************************************)
max_retries == 3

\* str.startswith
StartsWith(s, prefix) ==
    Len(prefix) <= Len(s) /\ SubSeq(s, 1, Len(prefix)) = prefix

\* resp.status_code == 200 and content-type startswith "application/pdf"
DownloadSucceeds(resp) ==
    /\ resp.kind = "response"
    /\ resp.status = 200
    /\ StartsWith(resp.content_type, ContentTypePdf)

MoreAttemptsOffByOne(made) == made <= max_retries

\* "for attempt in range(max_retries)": whether another attempt follows the
\* attempts made so far
MoreAttempts(made) == made < max_retries

\* one pass through the body of the retry loop
DownloadAttempt ==
    /\ pc = "download"
    /\ dl.result = "pending"
    /\ \E resp \in DownloadResponses :
        LET made == dl.attempts + 1
        IN  IF DownloadSucceeds(resp)
            THEN /\ receiptFiles' = receiptFiles \cup {cur.uuid}
                 /\ downloaded' = downloaded \cup {cur.uuid}
                 /\ dl' = [attempts |-> made, last |-> resp, result |-> "saved"]
                 /\ pc' = "append"
            ELSE /\ UNCHANGED <<receiptFiles, downloaded>>
                 /\ IF resp.kind # "unexpected_error" /\ MoreAttempts(made)
                    THEN /\ dl' = [attempts |-> made, last |-> resp,
                                   result |-> "pending"]
                         /\ pc' = "download"
                    ELSE /\ dl' = [attempts |-> made, last |-> resp,
                                   result |-> "None"]
                         /\ pc' = "append"
    /\ requests' = Append(requests, Request("download", cur.uuid))
    /\ UNCHANGED <<listing_requests, listing_outcome, target_month,
                   activities, idx, cur, trips, overall_amount, merged,
                   artifacts, ws, home_keywords, work_keywords, email_enabled,
                   now_year, pickup_location, trip_reason, now_month,
                   month_range, exit_code, logged, token_read, detail_resp>>

\* trips.append({...}) at the end of the iteration
AppendTrip ==
    /\ pc = "append"
    /\ trips' = Append(trips, [uuid |-> cur.uuid, status |-> cur.status,
                               price |-> cur.price, time |-> cur.time,
                               pickup_location |-> cur.pickup,
                               dropoff_location |-> cur.dropoff])
    /\ idx' = idx + 1
    /\ cur' = NoCur
    /\ dl' = NoDownload
    /\ pc' = "loop"
    /\ UNCHANGED <<listing_requests, listing_outcome, target_month,
                   activities, overall_amount, requests, receiptFiles,
                   downloaded, merged, artifacts, ws, home_keywords,
                   work_keywords, email_enabled, now_year, pickup_location,
                   trip_reason, now_month, month_range, exit_code, logged,
                   token_read, detail_resp>>


(***************************************************************************)
(* classify_trip_reason                                                    *)
(***************************************************************************)
\* the two labels the function returns; the source holds them as Arabic text
\* with the comments "Return from work" and "Going to work"
ReturnFromWork == "ReturnFromWork"
GoingToWork == "GoingToWork"

\* for keyword in keywords: if keyword.lower() in pickup_lower: return ...
RECURSIVE MatchesAny(_, _)
MatchesAny(keywords, pickup_lower) ==
    IF keywords = <<>> THEN FALSE
    ELSE IF Contains(pickup_lower, Lower(Head(keywords))) THEN TRUE
    ELSE MatchesAny(Tail(keywords), pickup_lower)

classify_work_first(pickup, home, work) ==
    IF MatchesAny(work, Lower(pickup)) THEN GoingToWork
    ELSE IF MatchesAny(home, Lower(pickup)) THEN ReturnFromWork
    ELSE ""

classify_trip_reason(pickup, home, work) ==
    IF MatchesAny(home, Lower(pickup)) THEN ReturnFromWork
    ELSE IF MatchesAny(work, Lower(pickup)) THEN GoingToWork
    ELSE ""

(***************************************************************************)
(* merge_receipts                                                          *)
(***************************************************************************)
SortKey(trip, year) == DateTimeKey(parse_trip_date(trip.time, year))

\* x placed behind every element whose key is not smaller: equal keys keep
\* their order, as sorted(..., reverse=True) does
RECURSIVE InsertDesc(_, _, _)
InsertDesc(sorted, x, year) ==
    IF sorted = <<>> THEN <<x>>
    ELSE IF SortKey(Head(sorted), year) >= SortKey(x, year)
         THEN <<Head(sorted)>> \o InsertDesc(Tail(sorted), x, year)
         ELSE <<x>> \o sorted

\* sorted(trips, key=lambda t: parse_trip_date(t.get("time", "")), reverse=True)
RECURSIVE SortedTrips(_, _)
SortedTrips(ts, year) ==
    IF ts = <<>> THEN <<>>
    ELSE InsertDesc(SortedTrips(SubSeq(ts, 1, Len(ts) - 1), year), ts[Len(ts)], year)

MergedUuidsAll(sorted, files) == [i \in DOMAIN sorted |-> sorted[i].uuid]

\* the loop over sorted_trips: a trip is appended when receipts/<uuid>.pdf exists
RECURSIVE MergedUuids(_, _)
MergedUuids(sorted, files) ==
    IF sorted = <<>> THEN <<>>
    ELSE (IF Head(sorted).uuid \in files THEN <<Head(sorted).uuid>> ELSE <<>>)
         \o MergedUuids(Tail(sorted), files)

\* "if merged_count > 0": the merged document is written
WritesMerged(merged_count) == merged_count > 0

MergeReceipts ==
    /\ pc = "merge"
    /\ merged' = MergedUuids(SortedTrips(trips, now_year), receiptFiles)
    /\ artifacts' = [artifacts EXCEPT !.all_receipts = WritesMerged(Len(merged'))]
    /\ pc' = "cleanup"
    /\ UNCHANGED <<listing_requests, listing_outcome, target_month,
                   activities, idx, cur, trips, overall_amount, dl, requests,
                   receiptFiles, downloaded, ws, home_keywords, work_keywords,
                   email_enabled, now_year, pickup_location, trip_reason,
                   now_month, month_range, exit_code, logged, token_read,
                   detail_resp>>

\* cleanup_temp_receipts_folder: shutil.rmtree("receipts")
CleanupTempReceipts ==
    /\ pc = "cleanup"
    /\ receiptFiles' = {}
    /\ pc' = "config"
    /\ UNCHANGED <<listing_requests, listing_outcome, target_month,
                   activities, idx, cur, trips, overall_amount, dl, requests,
                   downloaded, merged, artifacts, ws, home_keywords,
                   work_keywords, email_enabled, now_year, pickup_location,
                   trip_reason, now_month, month_range, exit_code, logged,
                   token_read, detail_resp>>

(***************************************************************************)
(* process_excel_file                                                      *)
(***************************************************************************)
start_row == 8
ClaimForm == "Claim Form"
AppWallet == "App Wallet"

RowOfFromOne(i) == start_row + i + 1

\* row = start_row + i, i counted from 0
RowOf(i) == start_row + i

\* ws.cell(row=row, column=col, value=value)
WriteCell(sheet, row, col, value) ==
    [k \in DOMAIN sheet \cup {<<ClaimForm, row, col>>} |->
        IF k = <<ClaimForm, row, col>> THEN value ELSE sheet[k]]

\* the seven ws.cell calls of one iteration
WriteRow(sheet, row, trip, home, work, year) ==
    LET c2 == WriteCell(sheet, row, 2, ExcelDate(trip.time, year))
        c3 == WriteCell(c2, row, 3, trip.pickup_location)
        c4 == WriteCell(c3, row, 4, trip.dropoff_location)
        c5 == WriteCell(c4, row, 5, trip.price)
        c6 == WriteCell(c5, row, 6,
                        classify_trip_reason(trip.pickup_location, home, work))
        c7 == WriteCell(c6, row, 7, AppWallet)
    IN  WriteCell(c7, row, 8, "")

\* "for i, trip in enumerate(trips, start=0)", from the i-th trip (0-based) on
RECURSIVE WriteRows(_, _, _, _, _, _)
WriteRows(sheet, ts, i, home, work, year) ==
    IF i >= Len(ts) THEN sheet
    ELSE WriteRows(WriteRow(sheet, RowOf(i), ts[i + 1], home, work, year),
                   ts, i + 1, home, work, year)

EmptySheet == [k \in {} |-> 0]


(***************************************************************************)
(* get_month_date_range                                                    *)
(* A month argument of 0 stands for None.  A timestamp in milliseconds     *)
(* since 1970-01-01 00:00 (local zone, taken with a fixed offset 0) is     *)
(* the number day * MsPerDay + ms, held as the pair [day, ms] of its       *)
(* quotient and remainder by MsPerDay.                                     *)
(***************************************************************************)
MsPerDay == 86400000

\* the number of leap years before year y
LeapsBefore(y) == ((y - 1) \div 4) - ((y - 1) \div 100) + ((y - 1) \div 400)

RECURSIVE DaysBeforeMonth(_, _)
DaysBeforeMonth(y, mo) ==
    IF mo <= 1 THEN 0 ELSE DaysBeforeMonth(y, mo - 1) + DaysIn(mo - 1, y)

\* int(datetime(y, mo, d, ...).timestamp() * 1000), ms the milliseconds of
\* the day
EpochMs(y, mo, d, ms) ==
    [day |-> 365 * (y - 1970) + (LeapsBefore(y) - LeapsBefore(1970))
               + DaysBeforeMonth(y, mo) + (d - 1),
     ms |-> ms]

\* the order of timestamps
MsLeq(a, b) == a.day < b.day \/ (a.day = b.day /\ a.ms <= b.ms)

\* the timestamp one millisecond later
MsSucc(a) ==
    IF a.ms + 1 = MsPerDay THEN [day |-> a.day + 1, ms |-> 0]
    ELSE [day |-> a.day, ms |-> a.ms + 1]

\* 23:59:59.999 as milliseconds of the day
EndOfDayMs == ((23 * 60 + 59) * 60 + 59) * 1000 + 999

\* the decimal digits of n, padded with zeros to the given width
RECURSIVE ZeroPadded(_, _)
ZeroPadded(n, width) ==
    IF width = 0 THEN <<>>
    ELSE ZeroPadded(n \div 10, width - 1) \o <<DigitChars[(n % 10) + 1]>>

\* strftime("%Y-%m")
MonthYearString(y, mo) == ZeroPadded(y, 4) \o <<"-">> \o ZeroPadded(mo, 2)

\* the branch on "month is None": the month the range is computed for
TargetMonth(month, current_month) ==
    IF month = 0 THEN (IF current_month = 1 THEN 12 ELSE current_month - 1)
    ELSE month

TargetYearOfCurrentYear(month, current_year, current_month) == current_year

\* ... and its year: the previous year for December, asked for or defaulted
TargetYear(month, current_year, current_month) ==
    IF month = 0
    THEN (IF current_month = 1 THEN current_year - 1 ELSE current_year)
    ELSE (IF month = 12 THEN current_year - 1 ELSE current_year)

LastDayThirty(y, mo) == 30

\* monthrange(target_year, target_month)[1]
LastDay(y, mo) == DaysIn(mo, y)

NoRange == [target_year |-> 0, target_month |-> 0,
            start_ms |-> [day |-> 0, ms |-> 0],
            end_ms |-> [day |-> 0, ms |-> 0], month_year |-> <<>>]

get_month_date_range(month, current_year, current_month) ==
    LET tm == TargetMonth(month, current_month)
        ty == TargetYear(month, current_year, current_month)
    IN  [target_year |-> ty,
         target_month |-> tm,
         start_ms |-> EpochMs(ty, tm, 1, 0),
         end_ms |-> EpochMs(ty, tm, LastDay(ty, tm), EndOfDayMs),
         month_year |-> MonthYearString(ty, tm)]

(***************************************************************************)
(* main                                                                    *)
(***************************************************************************)
\* sys.argv[1:]: absent, an integer, or text that int() rejects
Args == { [given |-> FALSE, int |-> FALSE, value |-> 0],
          [given |-> TRUE, int |-> TRUE, value |-> 7],
          [given |-> TRUE, int |-> TRUE, value |-> 0],
          [given |-> TRUE, int |-> TRUE, value |-> 13],
          [given |-> TRUE, int |-> FALSE, value |-> 0] }

\* config.json: absent, unreadable, or its keyword lists and email flag
KwZeitounLower == <<"z","e","i","t","o","u","n">>
KwTeseen == <<"N"," ","T","e","s","e","e","n">>
KwDigits == <<"2","2","4">>
ConfigFiles ==
    { [kind |-> "missing", home |-> <<>>, work |-> <<>>, email |-> FALSE],
      [kind |-> "invalid", home |-> <<>>, work |-> <<>>, email |-> FALSE],
      [kind |-> "ok", home |-> <<KwZeitounLower>>, work |-> <<KwTeseen, KwDigits>>,
       email |-> FALSE],
      [kind |-> "ok", home |-> <<KwTeseen>>, work |-> <<KwDigits>>,
       email |-> TRUE] }

NoArtifacts == [output_folder |-> FALSE, trips_json |-> FALSE,
                all_receipts |-> FALSE, excel_copy |-> FALSE,
                default_config |-> FALSE, zip |-> FALSE, email |-> FALSE]

\* datetime.now().year
Years == {2025, 2028}

\* what parse_command_line_args logs before sys.exit(1): for text that
\* int() rejects the error, the "Usage:" line and the "Example:" line, for an
\* integer out of range the error "Month must be between 1 and 12" alone
MessagesOnInvalid(a) ==
    IF ~a.int THEN {"invalid_month_parameter", "usage", "example"}
    ELSE {"month_out_of_range"}

\* "if not 1 <= month <= 12" and the ValueError of int()
InvalidArg(a) == a.given /\ (~a.int \/ a.value < 1 \/ a.value > 12)

\* parse_command_line_args, then get_month_date_range(target_month);
\* target_month 0 stands for None
ParseArgs ==
    /\ pc = "start"
    /\ \E a \in Args :
        IF InvalidArg(a)
        THEN /\ pc' = "exit_usage"
             /\ logged' = logged \cup MessagesOnInvalid(a)
             /\ exit_code' = 1
             /\ UNCHANGED <<target_month, month_range>>
        ELSE /\ pc' = "token"
             /\ target_month' = (IF a.given THEN a.value ELSE 0)
             /\ month_range' = get_month_date_range(target_month', now_year,
                                                    now_month)
             /\ UNCHANGED <<logged, exit_code>>
    /\ UNCHANGED <<listing_requests, listing_outcome, activities, idx, cur,
                   trips, overall_amount, dl, requests, receiptFiles,
                   downloaded, merged, artifacts, ws, home_keywords,
                   work_keywords, email_enabled, now_year, pickup_location,
                   trip_reason, now_month, token_read, detail_resp>>

\* read_token_from_file
ReadToken ==
    /\ pc = "token"
    /\ token_read' = TRUE
    /\ \E t \in {"present", "missing", "empty"} :
        IF t = "present"
        THEN pc' = "listing" /\ UNCHANGED exit_code
        ELSE pc' = "exit_auth" /\ exit_code' = 1
    /\ UNCHANGED <<listing_requests, listing_outcome, target_month,
                   activities, idx, cur, trips, overall_amount, dl, requests,
                   receiptFiles, downloaded, merged, artifacts, ws,
                   home_keywords, work_keywords, email_enabled, now_year,
                   pickup_location, trip_reason, now_month, month_range,
                   logged, detail_resp>>

\* "if not trips: return", else the output folder and trips.json
SaveTrips ==
    /\ pc = "returned"
    /\ IF trips = <<>>
       THEN pc' = "no_trips" /\ exit_code' = 0 /\ UNCHANGED artifacts
       ELSE /\ pc' = "merge"
            /\ UNCHANGED exit_code
            /\ artifacts' = [artifacts EXCEPT !.output_folder = TRUE,
                                              !.trips_json = TRUE]
    /\ UNCHANGED <<listing_requests, listing_outcome, target_month,
                   activities, idx, cur, trips, overall_amount, dl, requests,
                   receiptFiles, downloaded, merged, ws, home_keywords,
                   work_keywords, email_enabled, now_year, pickup_location,
                   trip_reason, now_month, month_range, logged, token_read,
                   detail_resp>>

\* read_config_from_file
ReadConfig ==
    /\ pc = "config"
    /\ \E c \in ConfigFiles :
        \/ /\ c.kind = "missing"
           /\ artifacts' = [artifacts EXCEPT !.default_config = TRUE]
           /\ pc' = "exit_config"
           /\ exit_code' = 1
           /\ UNCHANGED <<home_keywords, work_keywords, email_enabled>>
        \/ /\ c.kind = "invalid"
           /\ pc' = "exit_config"
           /\ exit_code' = 1
           /\ UNCHANGED <<artifacts, home_keywords, work_keywords,
                          email_enabled>>
        \/ /\ c.kind = "ok"
           /\ home_keywords' = c.home
           /\ work_keywords' = c.work
           /\ email_enabled' = c.email
           /\ pc' = "copy"
           /\ UNCHANGED <<artifacts, exit_code>>
    /\ UNCHANGED <<listing_requests, listing_outcome, target_month,
                   activities, idx, cur, trips, overall_amount, dl, requests,
                   receiptFiles, downloaded, merged, ws, now_year,
                   pickup_location, trip_reason, now_month, month_range,
                   logged, token_read, detail_resp>>

\* create_monthly_excel_copy: shutil.copy2 raises when the template is absent
CreateMonthlyExcelCopy ==
    /\ pc = "copy"
    /\ \E template \in {"present", "absent"} :
        IF template = "present"
        THEN /\ pc' = "excel"
             /\ artifacts' = [artifacts EXCEPT !.excel_copy = TRUE]
             /\ UNCHANGED exit_code
        ELSE /\ pc' = "crashed"
             /\ exit_code' = 1
             /\ UNCHANGED artifacts
    /\ UNCHANGED <<listing_requests, listing_outcome, target_month,
                   activities, idx, cur, trips, overall_amount, dl, requests,
                   receiptFiles, downloaded, merged, ws, home_keywords,
                   work_keywords, email_enabled, now_year, pickup_location,
                   trip_reason, now_month, month_range, logged, token_read,
                   detail_resp>>

\* process_excel_file: wb["Claim Form"] raises when the sheet is absent
ProcessExcelFile ==
    /\ pc = "excel"
    /\ \E sheet \in {"present", "absent"} :
        IF sheet = "present"
        THEN /\ ws' = WriteRows(EmptySheet, trips, 0, home_keywords,
                                work_keywords, now_year)
             /\ pc' = "deliver"
             /\ UNCHANGED exit_code
        ELSE /\ pc' = "crashed"
             /\ exit_code' = 1
             /\ UNCHANGED ws
    /\ UNCHANGED <<listing_requests, listing_outcome, target_month,
                   activities, idx, cur, trips, overall_amount, dl, requests,
                   receiptFiles, downloaded, merged, artifacts, home_keywords,
                   work_keywords, email_enabled, now_year, pickup_location,
                   trip_reason, now_month, month_range, logged, token_read,
                   detail_resp>>

\* the ZIP archive and the email, when email_config.enabled
Deliver ==
    /\ pc = "deliver"
    /\ \/ /\ ~email_enabled
          /\ UNCHANGED artifacts
       \/ /\ email_enabled
          /\ \E zipped \in BOOLEAN, sent \in BOOLEAN :
              artifacts' = [artifacts EXCEPT !.zip = zipped,
                                             !.email = zipped /\ sent]
    /\ pc' = "done"
    /\ exit_code' = 0
    /\ UNCHANGED <<listing_requests, listing_outcome, target_month,
                   activities, idx, cur, trips, overall_amount, dl, requests,
                   receiptFiles, downloaded, merged, ws, home_keywords,
                   work_keywords, email_enabled, now_year, pickup_location,
                   trip_reason, now_month, month_range, logged, token_read,
                   detail_resp>>

Terminal == {"exit_usage", "exit_auth", "no_trips", "crashed", "exit_config",
             "done", "interrupted"}

\* KeyboardInterrupt in the course of main(): sys.exit(1), nothing cleaned up
Interrupt ==
    /\ pc \notin Terminal
    /\ pc' = "interrupted"
    /\ exit_code' = 1
    /\ UNCHANGED <<target_month, activities, idx, cur, trips, overall_amount,
                   dl, listing_requests, listing_outcome, requests,
                   receiptFiles, downloaded, merged, artifacts, ws,
                   home_keywords, work_keywords, email_enabled, now_year,
                   pickup_location, trip_reason, now_month, month_range,
                   logged, token_read, detail_resp>>

\* the script is started again: the working directory is as the last run
\* left it
RunAgain ==
    /\ pc \in Terminal
    /\ pc' = "start"
    /\ target_month' = 0
    /\ activities' = <<>>
    /\ idx' = 0
    /\ cur' = NoCur
    /\ trips' = <<>>
    /\ overall_amount' = 0
    /\ dl' = NoDownload
    /\ listing_requests' = 0
    /\ listing_outcome' = "none"
    /\ requests' = <<>>
    /\ downloaded' = {}
    /\ merged' = <<>>
    /\ artifacts' = NoArtifacts
    /\ ws' = EmptySheet
    /\ home_keywords' = <<>>
    /\ work_keywords' = <<>>
    /\ email_enabled' = FALSE
    /\ month_range' = NoRange
    /\ exit_code' = -1
    /\ logged' = {}
    /\ token_read' = FALSE
    /\ UNCHANGED <<receiptFiles, now_year, now_month, detail_resp,
                   pickup_location, trip_reason>>

\* the process has just started
StartIdle ==
    /\ month_range = NoRange
    /\ exit_code = -1
    /\ logged = {}
    /\ token_read = FALSE

\* the locals of get_uber_trips before it is called
FetchIdle ==
    /\ target_month = 0
    /\ activities = <<>>
    /\ idx = 0
    /\ cur = NoCur
    /\ overall_amount = 0
    /\ dl = NoDownload
    /\ listing_requests = 0
    /\ listing_outcome = "none"
    /\ requests = <<>>
    /\ downloaded = {}

\* nothing written yet by this run
ReportIdle ==
    /\ merged = <<>>
    /\ artifacts = NoArtifacts
    /\ ws = EmptySheet
    /\ email_enabled = FALSE

ClassifyIdle ==
    /\ pickup_location = <<>>
    /\ trip_reason = ""
    /\ detail_resp = NoResponse

\* the year in which the runs of the whole script are explored
RunYears == {2025}
\* ... and the month
RunMonths == {1}

Init ==
    /\ pc = "start"
    /\ StartIdle
    /\ now_month \in RunMonths
    /\ FetchIdle
    /\ trips = <<>>
    /\ receiptFiles = {}
    /\ ReportIdle
    /\ home_keywords = <<>>
    /\ work_keywords = <<>>
    /\ now_year \in RunYears
    /\ ClassifyIdle

Run ==
    \/ ParseArgs
    \/ ReadToken
    \/ FetchListing
    \/ NextRecord
    \/ FetchTripDetails
    \/ GetReceiptTimestamp
    \/ DownloadAttempt
    \/ AppendTrip
    \/ SaveTrips
    \/ MergeReceipts
    \/ CleanupTempReceipts
    \/ ReadConfig
    \/ CreateMonthlyExcelCopy
    \/ ProcessExcelFile
    \/ Deliver

Next == Run

\* one run of the script in a clean working directory
Spec == Init /\ [][Next]_vars

NextAgain == Run \/ Interrupt \/ RunAgain

\* runs of the script one after the other in the same working directory, any
\* of which may be interrupted
SpecAgain == Init /\ [][NextAgain]_vars

(***************************************************************************)
(* classify_trip_reason on its own: every pickup string up to MaxPickupLen *)
(* over a small alphabet, against keyword lists.                           *)
(***************************************************************************)
ClassifyAlphabet == {"a", "A", "b"}
Pickups == SeqsUpTo(ClassifyAlphabet, MaxPickupLen)
KeywordLists ==
    { <<>>,
      << <<"a">> >>,
      << <<"B">> >>,
      << <<"a","b">> >>,
      << <<"b","b">>, <<"A">> >>,
      << <<"b","a">>, <<"a","a">> >>,
      << <<>> >> }

InitClassify ==
    /\ pc = "classify"
    /\ StartIdle
    /\ now_month \in RunMonths
    /\ FetchIdle
    /\ trips = <<>>
    /\ receiptFiles = {}
    /\ ReportIdle
    /\ home_keywords \in KeywordLists
    /\ work_keywords \in KeywordLists
    /\ now_year \in RunYears
    /\ pickup_location \in Pickups
    /\ trip_reason = ""
    /\ detail_resp = NoResponse

\* the call classify_trip_reason(trip["pickup_location"], home_keywords,
\* work_keywords)
ClassifyTripReason ==
    /\ pc = "classify"
    /\ trip_reason' = classify_trip_reason(pickup_location, home_keywords,
                                           work_keywords)
    /\ pc' = "classified"
    /\ UNCHANGED <<target_month, activities, idx, cur, trips, overall_amount,
                   dl, listing_requests, listing_outcome, requests,
                   receiptFiles, downloaded, merged, artifacts, ws,
                   home_keywords, work_keywords, email_enabled, now_year,
                   pickup_location, now_month, month_range, exit_code, logged,
                   token_read, detail_resp>>

NextClassify == ClassifyTripReason

SpecClassify == InitClassify /\ [][NextClassify]_vars

(***************************************************************************)
(* merge_receipts on its own: batches of up to MaxMergeTrips trips with    *)
(* any of the sample time strings, any of their receipts present.          *)
(***************************************************************************)
TimeSamples == {TimeAug31Bullet, TimeAug30Bullet, TimeAug31Literal,
                TimeAug30Plain, TimeAug31Long, TimeAug30Long,
                TimeAug31LongPadded, TimeFeb29Plain, TimeWord}

TripAt(i, time, pickup) ==
    [uuid |-> Uuids[i], status |-> "Completed", price |-> 1250, time |-> time,
     pickup_location |-> pickup,
     dropoff_location |-> IF pickup = <<>> THEN <<>> ELSE AddrMall]

MergeBatches ==
    { [i \in DOMAIN ts |-> TripAt(i, ts[i], <<>>)] :
      ts \in SeqsUpTo(TimeSamples, MaxMergeTrips) }

InitMerge ==
    /\ pc = "merge"
    /\ StartIdle
    /\ now_month \in RunMonths
    /\ FetchIdle
    /\ trips \in MergeBatches
    /\ trips # <<>>
    /\ receiptFiles \in SUBSET { trips[i].uuid : i \in DOMAIN trips }
    /\ merged = <<>>
    /\ artifacts = [NoArtifacts EXCEPT !.output_folder = TRUE, !.trips_json = TRUE]
    /\ ws = EmptySheet
    /\ email_enabled = FALSE
    /\ home_keywords = <<>>
    /\ work_keywords = <<>>
    /\ now_year \in Years
    /\ ClassifyIdle

NextMerge == MergeReceipts

SpecMerge == InitMerge /\ [][NextMerge]_vars

(***************************************************************************)
(* process_excel_file on its own: batches of up to MaxRows trips.          *)
(***************************************************************************)
ExcelBatches ==
    { [i \in DOMAIN ts |-> TripAt(i, ts[i][1], ts[i][2])] :
      ts \in SeqsUpTo(TimeSamples \X {<<>>, AddrHome, AddrWork}, MaxRows) }

InitExcel ==
    /\ pc = "excel"
    /\ StartIdle
    /\ now_month \in RunMonths
    /\ FetchIdle
    /\ trips \in ExcelBatches
    /\ trips # <<>>
    /\ receiptFiles = {}
    /\ merged = <<>>
    /\ artifacts = [NoArtifacts EXCEPT !.output_folder = TRUE, !.trips_json = TRUE,
                                        !.excel_copy = TRUE]
    /\ ws = EmptySheet
    /\ \E c \in ConfigFiles :
          /\ c.kind = "ok"
          /\ home_keywords = c.home
          /\ work_keywords = c.work
          /\ email_enabled = c.email
    /\ now_year \in Years
    /\ ClassifyIdle

NextExcel == ProcessExcelFile

SpecExcel == InitExcel /\ [][NextExcel]_vars

(***************************************************************************)
(* process_excel_file called twice on one batch and one pair of keyword    *)
(* lists, each time on a fresh copy of the template.  Each call reads      *)
(* datetime.now().year for itself (line 663); the clock may have passed    *)
(* a new year between the two calls.                                       *)
(***************************************************************************)
MaxRerunRows == 1

RerunBatches ==
    { [i \in DOMAIN ts |-> TripAt(i, ts[i][1], ts[i][2])] :
      ts \in SeqsUpTo(TimeSamples \X {<<>>, AddrHome, AddrWork},
                      MaxRerunRows) }

InitTwice ==
    /\ pc = "excel"
    /\ StartIdle
    /\ now_month \in RunMonths
    /\ FetchIdle
    /\ trips \in RerunBatches
    /\ trips # <<>>
    /\ receiptFiles = {}
    /\ merged = <<>>
    /\ artifacts = [NoArtifacts EXCEPT !.output_folder = TRUE, !.trips_json = TRUE,
                                        !.excel_copy = TRUE]
    /\ ws = EmptySheet
    /\ \E c \in ConfigFiles :
          /\ c.kind = "ok"
          /\ home_keywords = c.home
          /\ work_keywords = c.work
          /\ email_enabled = c.email
    /\ now_year \in Years
    /\ ClassifyIdle

\* the second call, once the first has returned: ws is the fresh copy, which
\* replaces the first one
ProcessExcelFileAgain ==
    /\ pc = "deliver"
    /\ \E current_year \in {now_year, now_year + 1} :
          /\ now_year' = current_year
          /\ ws' = WriteRows(EmptySheet, trips, 0, home_keywords,
                             work_keywords, current_year)
    /\ pc' = "excel_again_done"
    /\ UNCHANGED <<listing_requests, listing_outcome, target_month,
                   activities, idx, cur, trips, overall_amount, dl, requests,
                   receiptFiles, downloaded, merged, artifacts, home_keywords,
                   work_keywords, email_enabled, pickup_location, trip_reason,
                   now_month, month_range, exit_code, logged, token_read,
                   detail_resp>>

NextTwice == ProcessExcelFile \/ ProcessExcelFileAgain

SpecTwice == InitTwice /\ [][NextTwice]_vars

(***************************************************************************)
(* get_month_date_range on its own: every month argument, None (0)        *)
(* included, on every current month of a leap year and of the year after.  *)
(***************************************************************************)
RangeYears == {2024, 2025}

InitRange ==
    /\ pc = "range"
    /\ target_month \in 0..12
    /\ now_year \in RangeYears
    /\ now_month \in 1..12
    /\ StartIdle
    /\ activities = <<>>
    /\ idx = 0
    /\ cur = NoCur
    /\ overall_amount = 0
    /\ dl = NoDownload
    /\ listing_requests = 0
    /\ listing_outcome = "none"
    /\ requests = <<>>
    /\ downloaded = {}
    /\ trips = <<>>
    /\ receiptFiles = {}
    /\ ReportIdle
    /\ home_keywords = <<>>
    /\ work_keywords = <<>>
    /\ ClassifyIdle

\* the call get_month_date_range(target_month)
GetMonthDateRange ==
    /\ pc = "range"
    /\ month_range' = get_month_date_range(target_month, now_year, now_month)
    /\ pc' = "ranged"
    /\ UNCHANGED <<target_month, activities, idx, cur, trips, overall_amount,
                   dl, listing_requests, listing_outcome, requests,
                   receiptFiles, downloaded, merged, artifacts, ws,
                   home_keywords, work_keywords, email_enabled, now_year,
                   now_month, exit_code, logged, token_read, pickup_location,
                   trip_reason, detail_resp>>

NextRange == GetMonthDateRange

SpecRange == InitRange /\ [][NextRange]_vars

(***************************************************************************)
(* The extraction of the locations from a trip-detail response, on its     *)
(* own: every outcome of the request, and every waypoint list of up to     *)
(* MaxWaypoints entries.                                                   *)
(***************************************************************************)
WaypointValues == {Str(AddrHome), Str(AddrWork), Str(AddrMall), Str(<<>>),
                   NotStr}

AllDetailResponses ==
    DetailResponses
    \cup { [kind |-> "trip", waypoints |-> w] :
             w \in SeqsUpTo(WaypointValues, MaxWaypoints) }

InitDetail ==
    /\ pc = "detail"
    /\ StartIdle
    /\ now_month \in RunMonths
    /\ now_year \in RunYears
    /\ target_month = 0
    /\ activities = <<[uuid |-> Uuids[1], description |-> DescPaid,
                       subtitle |-> TimeAug31Literal]>>
    /\ idx = 1
    /\ cur = [NoCur EXCEPT !.uuid = Uuids[1], !.status = "Completed",
                           !.price = ParsePrice(DescPaid),
                           !.time = TimeAug31Literal]
    /\ overall_amount = ParsePrice(DescPaid)
    /\ dl = NoDownload
    /\ listing_requests = 1
    /\ listing_outcome = "ok"
    /\ requests = <<>>
    /\ downloaded = {}
    /\ trips = <<>>
    /\ receiptFiles = {}
    /\ ReportIdle
    /\ home_keywords = <<>>
    /\ work_keywords = <<>>
    /\ pickup_location = <<>>
    /\ trip_reason = ""
    /\ detail_resp \in AllDetailResponses

\* the handling of detail_resp in the loop of get_uber_trips
ExtractLocations ==
    /\ pc = "detail"
    /\ detail_resp # NoResponse
    /\ IF DetailRaises(detail_resp)
       THEN /\ pc' = "crashed"
            /\ exit_code' = 1
            /\ UNCHANGED cur
       ELSE /\ cur' = [cur EXCEPT !.pickup = PickupOf(detail_resp),
                                  !.dropoff = DropoffOf(detail_resp)]
            /\ pc' = "receipt"
            /\ UNCHANGED exit_code
    /\ requests' = requests \o DetailRequestsIssued(cur.uuid, detail_resp)
    /\ UNCHANGED <<target_month, activities, idx, trips, overall_amount, dl,
                   listing_requests, listing_outcome, receiptFiles,
                   downloaded, merged, artifacts, ws, home_keywords,
                   work_keywords, email_enabled, now_year, now_month,
                   month_range, logged, token_read, detail_resp,
                   pickup_location, trip_reason>>

NextDetail == ExtractLocations

SpecDetail == InitDetail /\ [][NextDetail]_vars

(***************************************************************************)
(* The price extraction on its own: every description of up to MaxDescLen  *)
(* characters over digits, the decimal point and a letter.                 *)
(***************************************************************************)
PriceAlphabet == {"1", "5", ".", "x"}

InitPrice ==
    /\ pc = "price"
    /\ StartIdle
    /\ now_month \in RunMonths
    /\ now_year \in RunYears
    /\ target_month = 0
    /\ \E d \in SeqsUpTo(PriceAlphabet, MaxDescLen) :
          activities = <<[uuid |-> Uuids[1], description |-> d,
                          subtitle |-> TimeAug31Literal]>>
    /\ idx = 1
    /\ cur = NoCur
    /\ overall_amount = 0
    /\ dl = NoDownload
    /\ listing_requests = 1
    /\ listing_outcome = "ok"
    /\ requests = <<>>
    /\ downloaded = {}
    /\ trips = <<>>
    /\ receiptFiles = {}
    /\ ReportIdle
    /\ home_keywords = <<>>
    /\ work_keywords = <<>>
    /\ ClassifyIdle

\* "match = re.search(...)", "price = float(...) if match else 0.0" and
\* "overall_amount += price" for the record at hand
ParseRecordPrice ==
    /\ pc = "price"
    /\ cur' = [NoCur EXCEPT !.uuid = activities[idx].uuid,
                            !.price = ParsePrice(activities[idx].description)]
    /\ overall_amount' = AmountAfterRecord(overall_amount,
                                           activities[idx].description)
    /\ pc' = "priced"
    /\ UNCHANGED <<target_month, activities, idx, trips, dl,
                   listing_requests, listing_outcome, requests, receiptFiles,
                   downloaded, merged, artifacts, ws, home_keywords,
                   work_keywords, email_enabled, now_year, now_month,
                   month_range, exit_code, logged, token_read, detail_resp,
                   pickup_location, trip_reason>>

NextPrice == ParseRecordPrice

SpecPrice == InitPrice /\ [][NextPrice]_vars

(***************************************************************************)
(* Properties.                                                             *)
(***************************************************************************)
\* the listing record a trip was made from
ActivityOf(uuid) ==
    activities[CHOOSE i \in DOMAIN activities : activities[i].uuid = uuid]

MentionsCanceled(desc) == Contains(Lower(desc), CanceledLit)
MentionsUnfulfilled(desc) == Contains(Lower(desc), UnfulfilledLit)

\* C1: no record whose description contains "canceled" or "unfulfilled", in
\* any letter case and whatever its price, is among the trips of
\* get_uber_trips, and every trip there has status "Completed".
C1_NoCanceledTripReturned ==
    \A i \in DOMAIN trips :
        /\ ~MentionsCanceled(ActivityOf(trips[i].uuid).description)
        /\ ~MentionsUnfulfilled(ActivityOf(trips[i].uuid).description)
        /\ trips[i].status = "Completed"

\* get_uber_trips has returned one trip of a listing that also held a
\* record with a price that is unfulfilled but not canceled
C1_Witness ==
    /\ pc = "returned"
    /\ Len(trips) = 1
    /\ \E i \in DOMAIN activities :
          /\ MentionsUnfulfilled(activities[i].description)
          /\ ~MentionsCanceled(activities[i].description)
          /\ ParsePrice(activities[i].description) > 0

RECURSIVE SumOfPrices(_)
SumOfPrices(records) ==
    IF records = <<>> THEN 0
    ELSE ParsePrice(Head(records).description) + SumOfPrices(Tail(records))

RECURSIVE SumOfTripPrices(_)
SumOfTripPrices(ts) ==
    IF ts = <<>> THEN 0 ELSE Head(ts).price + SumOfTripPrices(Tail(ts))

\* C2: when the listing request succeeds, the overall_amount get_uber_trips
\* returns is the sum of the parsed prices of all records of the listing,
\* the excluded ones included, whatever the per-trip requests did.
C2_OverallAmountSumsAllRecords ==
    (pc = "returned" /\ listing_outcome = "ok")
        => overall_amount = SumOfPrices(activities)

\* returned with a retained trip and an excluded record whose price counts
C2_Witness ==
    /\ pc = "returned"
    /\ listing_outcome = "ok"
    /\ trips # <<>>
    /\ overall_amount > SumOfTripPrices(trips)
    /\ \E i \in DOMAIN trips : trips[i].pickup_location = <<>>

\* C3: when the listing request times out, fails at network level or has a
\* non-success status, get_uber_trips returns no trips and a zero total, no
\* per-trip request is issued, and the run ends with nothing written.
C3_ListingFailureWritesNothing ==
    listing_outcome \in {"timeout", "network_error", "http_error"}
        => /\ pc \in {"returned", "no_trips"}
           /\ trips = <<>>
           /\ overall_amount = 0
           /\ requests = <<>>
           /\ listing_requests = 1
           /\ downloaded = {}
           /\ merged = <<>>
           /\ artifacts = NoArtifacts
           /\ ws = EmptySheet

\* the run has ended after a listing response with a non-success status
C3_Witness ==
    /\ listing_outcome = "http_error"
    /\ pc = "no_trips"

DownloadRequests == SelectSeq(requests, LAMBDA r : r.kind = "download")

\* C4: a call of download_receipt_pdf issues at most 3 requests; it succeeds
\* only on a 200 response with a PDF content-type, and then issues no more;
\* after a timeout, network error or non-success it tries again until 3
\* attempts were made, then returns None, and the batch goes on.
C4_DownloadRetries ==
    /\ dl.attempts <= 3
    /\ Len(DownloadRequests) <= 3
    /\ pc \in {"download", "append"} => Len(DownloadRequests) = dl.attempts
    /\ pc = "download" => dl.result = "pending"
    /\ dl.result = "saved"
         => /\ dl.last.kind = "response"
            /\ dl.last.status = 200
            /\ StartsWith(dl.last.content_type, ContentTypePdf)
            /\ pc = "append"
            /\ cur.uuid \in receiptFiles
    /\ (dl.result = "pending" /\ dl.attempts > 0)
         => /\ dl.attempts < 3
            /\ ~(dl.last.kind = "response" /\ dl.last.status = 200
                 /\ StartsWith(dl.last.content_type, ContentTypePdf))
    /\ (dl.result = "None" /\ dl.last.kind # "unexpected_error")
         => /\ dl.attempts = 3
            /\ pc = "append"

\* three attempts failed, the last on a 200 response that is no PDF, and the
\* loop of get_uber_trips goes on
C4_Witness ==
    /\ dl.result = "None"
    /\ dl.attempts = 3
    /\ dl.last.kind = "response"
    /\ dl.last.status = 200
    /\ pc = "append"

\* get_uber_trips ended by an exception after a successful listing
FetchAborted ==
    /\ pc = "crashed"
    /\ listing_outcome = "ok"
    /\ ~artifacts.output_folder

\* C5: after a successful listing, no failure of a per-trip request
\* (timeout, network error, non-success status, malformed payload) aborts
\* the run: the trip is retained and the loop reaches the end of the listing.
C5_PerTripFailureNeverAborts == ~FetchAborted

HomeHit ==
    \E i \in DOMAIN home_keywords :
        Contains(Lower(pickup_location), Lower(home_keywords[i]))
WorkHit ==
    \E i \in DOMAIN work_keywords :
        Contains(Lower(pickup_location), Lower(work_keywords[i]))

\* C6: classify_trip_reason returns the ReturnFromWork label when the pickup
\* contains any home keyword as a case-insensitive substring, else the
\* GoingToWork label when it contains any work keyword, else the empty
\* string; a pickup matching both lists gives ReturnFromWork.
C6_ClassifyHomeFirst ==
    pc = "classified"
        => trip_reason = (IF HomeHit THEN "ReturnFromWork"
                          ELSE IF WorkHit THEN "GoingToWork"
                          ELSE "")

\* a pickup that matches a home keyword only through case folding, and a
\* work keyword too, was classified
C6_Witness ==
    /\ pc = "classified"
    /\ HomeHit
    /\ WorkHit
    /\ \A i \in DOMAIN home_keywords :
          ~Contains(pickup_location, home_keywords[i])
    /\ Len(home_keywords) = 2
    /\ trip_reason = "ReturnFromWork"

PositionIn(seq, u) == CHOOSE i \in DOMAIN seq : seq[i] = u
InSeq(seq, u) == \E i \in DOMAIN seq : seq[i] = u

\* C7: merge_receipts appends receipts in descending order of trip time: of
\* two trips with receipts and the times "Aug 31 <U+2022> 4:29 PM" and
\* "Aug 30 <U+2022> 9:00 AM", the one of Aug 31 is appended first.
C7_LaterTripMergedFirst ==
    pc = "cleanup"
        => \A i, j \in DOMAIN trips :
              (/\ trips[i].time = TimeAug31Bullet
               /\ trips[j].time = TimeAug30Bullet
               /\ InSeq(merged, trips[i].uuid)
               /\ InSeq(merged, trips[j].uuid))
              => PositionIn(merged, trips[i].uuid) < PositionIn(merged, trips[j].uuid)

TripUuids == { trips[i].uuid : i \in DOMAIN trips }
MergedSet == { merged[i] : i \in DOMAIN merged }
NoDuplicates(seq) == \A i, j \in DOMAIN seq : seq[i] = seq[j] => i = j

ExpectedCells ==
    { <<"Claim Form", 8 + i, c>> : i \in 0..(Len(trips) - 1), c \in 2..8 }

\* C9: process_excel_file writes one row per retained trip into the
\* "Claim Form" sheet: the i-th trip (0-based) at row 8 + i with date,
\* pickup, dropoff, price, purpose label, the payment-method label and an
\* empty notes cell in columns 2..8, and writes no other cell.
C9_OneRowPerTrip ==
    pc = "deliver"
        => /\ DOMAIN ws = ExpectedCells
           /\ \A i \in 0..(Len(trips) - 1) :
                LET t == trips[i + 1]
                    date == ws[<<"Claim Form", 8 + i, 2>>]
                IN  /\ date.kind \in {"datetime", "text"}
                    /\ date.kind = "text" => date.raw = t.time
                    /\ date = ExcelDate(t.time, now_year)
                    /\ ws[<<"Claim Form", 8 + i, 3>>] = t.pickup_location
                    /\ ws[<<"Claim Form", 8 + i, 4>>] = t.dropoff_location
                    /\ ws[<<"Claim Form", 8 + i, 5>>] = t.price
                    /\ ws[<<"Claim Form", 8 + i, 6>>]
                         = classify_trip_reason(t.pickup_location,
                                                home_keywords, work_keywords)
                    /\ ws[<<"Claim Form", 8 + i, 7>>] = "App Wallet"
                    /\ ws[<<"Claim Form", 8 + i, 8>>] = ""

\* two trips written, the second with a time that is no date
C9_Witness ==
    /\ pc = "deliver"
    /\ Len(trips) = 2
    /\ ws[<<"Claim Form", 9, 2>>].kind = "text"
    /\ ws[<<"Claim Form", 8, 6>>] = "ReturnFromWork"

\* C10: every run that retains at least one trip and completes has written
\* the trip-batch record, the merged receipt document and the spreadsheet
\* copy, also when no retained trip has a receipt.
C10_ThreeArtifacts ==
    (pc = "done" /\ trips # <<>>)
        => /\ artifacts.trips_json
           /\ artifacts.all_receipts
           /\ artifacts.excel_copy

\* C11: for every month 1..12 and for the absent month, get_month_date_range
\* returns start_ms <= end_ms, start_ms the first instant of the resolved
\* month, end_ms the last millisecond (23:59:59.999) of the last day of the
\* same month, and a label that is the "YYYY-MM" of the start.
C11_RangeIsTheWholeMonth ==
    pc = "ranged"
        => LET r == month_range
               nextMonth == IF r.target_month = 12 THEN 1
                            ELSE r.target_month + 1
               nextYear == IF r.target_month = 12 THEN r.target_year + 1
                           ELSE r.target_year
           IN  /\ MsLeq(r.start_ms, r.end_ms)
               /\ r.start_ms = EpochMs(r.target_year, r.target_month, 1, 0)
               /\ r.end_ms.ms = ((23 * 60 + 59) * 60 + 59) * 1000 + 999
               /\ MsSucc(r.end_ms) = EpochMs(nextYear, nextMonth, 1, 0)
               /\ r.month_year
                    = ZeroPadded(r.target_year, 4) \o <<"-">>
                        \o ZeroPadded(r.target_month, 2)
               /\ Len(r.month_year) = 7

\* the range of February of a leap year: 29 days
C11_Witness ==
    /\ pc = "ranged"
    /\ target_month = 2
    /\ now_year = 2024
    /\ month_range.end_ms.day - month_range.start_ms.day = 28
    /\ month_range.month_year = <<"2","0","2","4","-","0","2">>

\* C12: an absent month resolves to the month before the current one
\* (January gives December of the year before); an explicit month 1..11
\* resolves to that month of the current year; and whenever the resolved
\* month is December the year is the current year minus one.
C12_ResolvedMonthAndYear ==
    pc = "ranged"
        => LET tm == month_range.target_month
               ty == month_range.target_year
           IN  /\ (target_month = 0 /\ now_month = 1)
                     => (tm = 12 /\ ty = now_year - 1)
               /\ (target_month = 0 /\ now_month > 1)
                     => (tm = now_month - 1 /\ ty = now_year)
               /\ target_month \in 1..11
                     => (tm = target_month /\ ty = now_year)
               /\ target_month = 12 => tm = 12
               /\ tm = 12 => ty = now_year - 1

\* December asked for in the middle of a year: the year before
C12_Witness ==
    /\ pc = "ranged"
    /\ target_month = 12
    /\ now_month = 6
    /\ month_range.target_year = now_year - 1
    /\ month_range.month_year = <<"2","0","2","4","-","1","2">>

\* C13: for every month argument that is not an integer in 1..12, the
\* process exits non-zero with a usage message, before the credential is
\* read and before any upstream request is issued.
C13_InvalidMonthExitsWithUsage ==
    pc = "exit_usage"
        => /\ exit_code = 1
           /\ "usage" \in logged
           /\ ~token_read
           /\ listing_requests = 0
           /\ requests = <<>>

WaypointStrings(resp) ==
    { resp.waypoints[i].val :
        i \in { j \in DOMAIN resp.waypoints : resp.waypoints[j].str } }

\* C14: for every retained trip whose detail request succeeds with a list of
\* at least 2 waypoints that are strings, pickup_location is the first
\* waypoint and dropoff_location the last; with fewer than 2 waypoints, and
\* in every other outcome, both fields are empty; the fields never hold a
\* value other than a returned waypoint or the empty string.
C14_LocationsAreWaypointsOrEmpty ==
    pc = "receipt"
        => LET w == detail_resp.waypoints
               n == Len(w)
           IN  /\ (detail_resp.kind = "trip" /\ n >= 2
                     /\ w[1].str /\ w[n].str)
                     => (cur.pickup = w[1].val /\ cur.dropoff = w[n].val)
               /\ (detail_resp.kind = "trip" /\ n < 2)
                     => (cur.pickup = <<>> /\ cur.dropoff = <<>>)
               /\ detail_resp.kind # "trip"
                     => (cur.pickup = <<>> /\ cur.dropoff = <<>>)
               /\ cur.pickup \in WaypointStrings(detail_resp) \cup {<<>>}
               /\ cur.dropoff \in WaypointStrings(detail_resp) \cup {<<>>}

\* C15: the parser used for merge sorting (parse_trip_date) and the one used
\* for the spreadsheet date cell accept the same strings: for every trip
\* time, the sort parser yields a datetime other than the sentinel if and
\* only if the spreadsheet parser yields a date, and then the same one.
C15_ParsersAgree ==
    pc = "deliver"
        => \A i \in DOMAIN trips :
              LET sort_dt == parse_trip_date(trips[i].time, now_year)
                  cell == ws[<<"Claim Form", 8 + (i - 1), 2>>]
              IN  /\ (sort_dt # DateTimeMin) <=> (cell.kind = "datetime")
                  /\ cell.kind = "datetime" => cell.dt = sort_dt

\* the tokens of a time string that are neither spaces nor separators
Words(s) == SelectSeq(s, LAMBDA x : x.k \notin {"sp", "bullet", "literal"})
KindsOf(s) == [i \in DOMAIN s |-> s[i].k]

\* minutes of the day of an "H:MM" token and an AM/PM token
MinuteOfDay(hm, pm) == ((hm \div 60) % 12) * 60 + (hm % 60) + 720 * pm

\* "Aug 31 <separator> 4:29 PM": month, day, time, AM/PM, a day the month has
\* in the given year
YearlessPattern(s, year) ==
    /\ KindsOf(Words(s)) = <<"mon", "d2", "hm", "ampm">>
    /\ Words(s)[2].v \in 1..DaysIn(Words(s)[1].v, year)

\* "Aug 31, 2025, 4:29 PM"
WithYearPattern(s) ==
    /\ KindsOf(Words(s))
         = <<"mon", "d2", "comma", "d4", "comma", "hm", "ampm">>
    /\ Words(s)[2].v \in 1..DaysIn(Words(s)[1].v, Words(s)[4].v)

\* C16: the spreadsheet date cell of a retained trip holds the parsed date
\* with the current year when the time matches the year-less pattern, the
\* parsed date with its own year when it matches the pattern with a year,
\* and the raw time string when it matches neither; no row is left out.
C16_DateCell ==
    pc = "deliver"
        => /\ DOMAIN ws = ExpectedCells
           /\ \A i \in DOMAIN trips :
                LET s == trips[i].time
                    w == Words(s)
                    cell == ws[<<"Claim Form", 8 + (i - 1), 2>>]
                IN  /\ YearlessPattern(s, now_year)
                         => /\ cell.kind = "datetime"
                            /\ cell.dt = DateTime(now_year, w[1].v, w[2].v,
                                                  MinuteOfDay(w[3].v, w[4].v))
                    /\ WithYearPattern(s)
                         => /\ cell.kind = "datetime"
                            /\ cell.dt = DateTime(w[4].v, w[1].v, w[2].v,
                                                  MinuteOfDay(w[6].v, w[7].v))
                    /\ (~YearlessPattern(s, now_year) /\ ~WithYearPattern(s))
                         => (cell.kind = "text" /\ cell.raw = s)

\* a numeral: digits, or digits, a point and digits
IsNumeral(sub) ==
    /\ sub # <<>>
    /\ \A i \in DOMAIN sub : IsDigit(sub[i]) \/ sub[i] = "."
    /\ IsDigit(sub[1])
    /\ IsDigit(sub[Len(sub)])
    /\ Cardinality({ i \in DOMAIN sub : sub[i] = "." }) <= 1

RECURSIVE Pow10(_)
Pow10(n) == IF n = 0 THEN 1 ELSE 10 * Pow10(n - 1)

RECURSIVE SumOver(_, _)
SumOver(f, S) ==
    IF S = {} THEN 0
    ELSE LET i == CHOOSE x \in S : TRUE IN f[i] + SumOver(f, S \ {i})

\* the value of a numeral in hundredths, digits beyond the second decimal
\* left out
NumeralValue(sub) ==
    LET dot == IF \E i \in DOMAIN sub : sub[i] = "."
               THEN CHOOSE i \in DOMAIN sub : sub[i] = "."
               ELSE Len(sub) + 1
        whole == [i \in 1..(dot - 1) |->
                     DigitVal(sub[i]) * Pow10(dot - 1 - i) * 100]
        part == [i \in (dot + 1)..Len(sub) |->
                     IF i - dot <= 2
                     THEN DigitVal(sub[i]) * Pow10(2 - (i - dot)) ELSE 0]
    IN  SumOver(whole, DOMAIN whole) + SumOver(part, DOMAIN part)

\* the first numeric substring of s: it starts at the first digit and is
\* the longest numeral that starts there
FirstNumeral(s) ==
    LET p == CHOOSE i \in DOMAIN s :
                 IsDigit(s[i]) /\ \A j \in 1..(i - 1) : ~IsDigit(s[j])
        q == CHOOSE j \in p..Len(s) :
                 /\ IsNumeral(SubSeq(s, p, j))
                 /\ \A k \in (j + 1)..Len(s) : ~IsNumeral(SubSeq(s, p, k))
    IN  SubSeq(s, p, q)

\* C17: the parsed price of a listing record is the value of the first
\* numeric substring (digits with an optional decimal fraction) of its
\* description, and 0 when the description holds no digit; every price and
\* overall_amount is non-negative.
C17_PriceIsFirstNumeral ==
    pc = "priced"
        => LET d == activities[idx].description
           IN  /\ (\A i \in DOMAIN d : ~IsDigit(d[i])) => cur.price = 0
               /\ (\E i \in DOMAIN d : IsDigit(d[i]))
                     => cur.price = NumeralValue(FirstNumeral(d))
               /\ cur.price >= 0
               /\ overall_amount = cur.price
               /\ overall_amount >= 0

\* the description ".1.5": the price is 1.5, the leading point left out
C17_Witness ==
    /\ pc = "priced"
    /\ activities[idx].description = <<".", "1", ".", "5">>
    /\ cur.price = 150

\* the place of a record in the listing
PlaceOf(uuid) == CHOOSE i \in DOMAIN activities : activities[i].uuid = uuid

InRecord == pc \in {"detail", "receipt", "download", "append"}

\* the requests of the record at hand come in the order detail, receipt
\* metadata, downloads, all for that record, downloads only with a timestamp
RequestsInOrder ==
    /\ \A i \in DOMAIN requests :
          requests[i].kind = (IF i = 1 THEN "detail"
                              ELSE IF i = 2 THEN "receipt" ELSE "download")
    /\ InRecord
         => /\ cur.uuid = activities[idx].uuid
            /\ \A i \in DOMAIN requests : requests[i].uuid = cur.uuid
            /\ Len(requests) >= 3 => cur.timestamp \notin {"None", ""}
    /\ pc = "detail" => requests = <<>>
    /\ pc = "receipt" => Len(requests) = 1
    /\ pc = "download" => Len(requests) >= 2
    /\ pc = "append" => Len(requests) >= 2

\* the trips are records of the listing already handled, in listing order
TripsInListingOrder ==
    /\ \A i \in DOMAIN trips :
          /\ \E k \in DOMAIN activities : activities[k].uuid = trips[i].uuid
          /\ PlaceOf(trips[i].uuid) < idx
    /\ \A i, j \in DOMAIN trips :
          i < j => PlaceOf(trips[i].uuid) < PlaceOf(trips[j].uuid)

\* a step issues requests for the record at hand only, and the loop moves on
\* by one record, in a step that issues no request
OneRecordAtATime ==
    /\ idx' \in {idx, idx + 1}
    /\ requests' # requests
         => \/ requests' = <<>>
            \/ /\ Len(requests') = Len(requests) + 1
               /\ SubSeq(requests', 1, Len(requests)) = requests
               /\ idx' = idx
               /\ requests'[Len(requests')].uuid = activities[idx].uuid
    /\ Len(trips') > Len(trips)
         => /\ trips' = Append(trips, trips'[Len(trips')])
            /\ trips'[Len(trips')].uuid = activities[idx].uuid
            /\ idx' = idx + 1
            /\ requests' = requests

\* C18: execution is sequential per trip: for each retained record its
\* detail request, then its receipt-metadata request, then (only with a
\* receipt timestamp) its download attempts complete before the first
\* request of the next record; records are handled in listing order, and
\* the returned trips are a subsequence of the listing in the same order.
C18_OneTripAtATime ==
    [](RequestsInOrder /\ TripsInListingOrder) /\ [][OneRecordAtATime]_vars

\* the second record of a listing, after two download attempts, about to be
\* appended behind the first
C18_Witness ==
    /\ pc = "append"
    /\ idx = 2
    /\ Len(trips) = 1
    /\ Len(requests) = 4
    /\ dl.result = "saved"

RequestsOfKind(kind) == { i \in DOMAIN requests : requests[i].kind = kind }

\* C20: only the receipt download is retried: a run issues one listing
\* request, whatever the response holds, and for each retained record at most
\* one detail request and at most one receipt-metadata request, whatever
\* their outcome.
C20_OnlyDownloadRetried ==
    /\ listing_requests <= 1
    /\ pc \notin {"start", "token", "listing", "exit_usage", "exit_auth"}
         => listing_requests = 1
    /\ Cardinality(RequestsOfKind("detail")) <= 1
    /\ Cardinality(RequestsOfKind("receipt")) <= 1
    /\ pc \in {"receipt", "download", "append"}
         => Cardinality(RequestsOfKind("detail")) = 1
    /\ pc \in {"download", "append"}
         => Cardinality(RequestsOfKind("receipt")) = 1

\* a record whose detail request gave no locations and whose download was
\* tried three times: one listing, one detail, one receipt request
C20_Witness ==
    /\ pc = "append"
    /\ listing_requests = 1
    /\ cur.pickup = <<>>
    /\ dl.attempts = 3
    /\ Cardinality(RequestsOfKind("download")) = 3
    /\ Cardinality(RequestsOfKind("detail")) = 1

\* C19: process_excel_file run twice on an identical trip batch and identical
\* keyword lists, each time on a fresh copy of the template, gives the same
\* cell values in both copies: the second call leaves every cell as the first
\* call wrote it.
C19_SecondCopyEqualsFirst == [][ProcessExcelFileAgain => ws' = ws]_vars

Excluded(desc) == MentionsCanceled(desc) \/ MentionsUnfulfilled(desc)

\* no request at hand and no receipt written by the run is for an excluded
\* record, and the record being fetched is not an excluded one
NothingForExcluded ==
    /\ \A i \in DOMAIN requests :
          ~Excluded(ActivityOf(requests[i].uuid).description)
    /\ \A u \in downloaded \cup receiptFiles :
          ~Excluded(ActivityOf(u).description)
    /\ InRecord => ~Excluded(activities[idx].description)

\* the step of the loop on an excluded record adds its price to
\* overall_amount, moves to the next record with no request issued, and
\* changes nothing else
ExcludedStepOnlyAdds ==
    (/\ pc = "loop"
     /\ idx <= Len(activities)
     /\ Excluded(activities[idx].description))
    => /\ overall_amount' =
             overall_amount + ParsePrice(activities[idx].description)
       /\ requests' = <<>>
       /\ idx' = idx + 1
       /\ pc' = "loop"
       /\ cur' = NoCur
       /\ UNCHANGED <<target_month, activities, trips, dl, listing_requests,
                      listing_outcome, receiptFiles, downloaded, merged,
                      artifacts, ws, home_keywords, work_keywords,
                      email_enabled, now_year, now_month, month_range,
                      exit_code, logged, token_read, detail_resp,
                      pickup_location, trip_reason>>

\* C21: for a record excluded as canceled or unfulfilled no detail request, no
\* receipt-metadata request and no download request is ever issued and no
\* receipt file is written for its id: its only effect on the run is the
\* addition of its price to overall_amount.
C21_ExcludedRecordOnlyAddsPrice ==
    []NothingForExcluded /\ [][ExcludedStepOnlyAdds]_vars

\* get_uber_trips has returned from a listing of an excluded record with a
\* price followed by a retained one whose receipt was downloaded
C21_Witness ==
    /\ pc = "returned"
    /\ Len(activities) = 2
    /\ Excluded(activities[1].description)
    /\ ParsePrice(activities[1].description) > 0
    /\ Len(trips) = 1
    /\ downloaded = {activities[2].uuid}
    /\ overall_amount = ParsePrice(activities[1].description)
                          + ParsePrice(activities[2].description)

\* main is at or past the call of read_config_from_file (line 1022)
AtOrPastConfig ==
    pc \in {"config", "exit_config", "copy", "excel", "deliver", "done"}

\* get_uber_trips has issued its listing request and gone through every record
FetchCompleted ==
    /\ listing_requests = 1
    /\ idx > Len(activities)
    /\ ~InRecord

\* C22: the keyword configuration is loaded only after the listing and all
\* per-trip requests have completed, the trip-batch record and the merged
\* receipt document have been written and the temporary receipts folder has
\* been removed; a run that ends with the fatal missing-configuration exit has
\* written the trip-batch record and deleted the downloaded receipts, and has
\* created no spreadsheet copy, no ZIP and no email.
C22_ConfigLoadedAfterMergeAndCleanup ==
    /\ AtOrPastConfig
         => /\ FetchCompleted
            /\ artifacts.trips_json
            /\ artifacts.all_receipts
            /\ receiptFiles = {}
    /\ ~AtOrPastConfig /\ pc # "crashed"
         => /\ home_keywords = <<>>
            /\ work_keywords = <<>>
            /\ ~artifacts.default_config
    /\ (pc = "exit_config" /\ artifacts.default_config)
         => /\ artifacts.trips_json
            /\ receiptFiles = {}
            /\ ~artifacts.excel_copy
            /\ ~artifacts.zip
            /\ ~artifacts.email

=============================================================================
